---- MODULE Spec2Model ----
(***************************************************************************)
(* A model of the Firmata client library (src/src/lib.rs): the Board       *)
(* aggregate (pins, I2C reply queue, identity strings), its transport, the *)
(* encoder operations that write frames and the decoder read_and_decode.   *)
(*                                                                         *)
(* Bytes are naturals 0..255, i32 values are integers.  Rust vectors are   *)
(* 0-based; the sequences here are 1-based, so At(s, i) reads s[i].        *)
(* A Rust panic (index out of bounds, Option::expect on None) is the       *)
(* result kind "Panic"; the board takes no further step after it.          *)
(***************************************************************************)
EXTENDS Integers, Sequences, FiniteSets, TLC

VARIABLES
    pins,              \* Board.pins: Vec<Pin>
    i2c_data,          \* Board.i2c_data: Vec<I2CReply>
    protocol_version,  \* Board.protocol_version: String
    firmware_name,     \* Board.firmware_name: String, as its UTF-8 bytes
    firmware_version,  \* Board.firmware_version: String
    rx,                \* bytes the transport holds for the board to read
    written,           \* bytes the most recent call handed to connection.write
    accepted,          \* the bytes of them connection.write took
    result,            \* what the most recent call returned
    last,              \* the most recent call: its name, arguments and the bytes it read
    boot,              \* Board::new: where initialize_board stands, its three flags
    retry,             \* a retry_X call: its attempts, its backoff and what it returned
    lock               \* the Mutex around the board and the two threads that take it

vars == <<pins, i2c_data, protocol_version, firmware_name, firmware_version,
          rx, written, accepted, result, last, boot, retry, lock>>

(***************************************************************************)
(* Protocol constants (mod constants; the values are those of the wire     *)
(* protocol table).                                                        *)
(***************************************************************************)
REPORT_VERSION == 249
DIGITAL_MESSAGE == 144
DIGITAL_MESSAGE_BOUND == 159
ANALOG_MESSAGE == 224
ANALOG_MESSAGE_BOUND == 239
SET_PIN_MODE == 244
START_SYSEX == 240
END_SYSEX == 247
ANALOG_MAPPING_RESPONSE == 106
CAPABILITY_RESPONSE == 108
PIN_STATE_RESPONSE == 110
REPORT_FIRMWARE == 121
I2C_REQUEST == 118
I2C_REPLY == 119
I2C_WRITE == 0
I2C_READ == 1
I2C_CONFIG == 120
CAPABILITY_QUERY == 107
ANALOG_MAPPING_QUERY == 105
REPORT_DIGITAL == 208
REPORT_ANALOG == 192
PIN_MODE_INPUT == 0
PIN_MODE_OUTPUT == 1
PIN_MODE_ANALOG == 2
SYSEX_REALTIME == 127
DEFAULT_ANALOG_RESOLUTION == 10

\* ExponentialBackoff as RetryFirmata::backoff builds it, in milliseconds:
\* max_interval is set, the other fields are the defaults of the backoff crate
\* (multiplier 1.5, randomization factor 0.5)
MaxInterval == 5000
InitialInterval == 500
MaxElapsedTime == 900000

(***************************************************************************)
(* Bounds of the model.                                                    *)
(***************************************************************************)
MaxRx == 6          \* bytes the transport buffers before the device waits
MaxReplies == 2     \* I2C replies the device sends before the client drains the queue

(***************************************************************************)
(* Integer and byte arithmetic.                                            *)
(***************************************************************************)
RECURSIVE Pow2(_)
Pow2(n) == IF n = 0 THEN 1 ELSE 2 * Pow2(n - 1)

\* x as u8
U8(x) == x % 256

\* a | b on non-negative integers
RECURSIVE BitOr(_, _)
BitOr(a, b) ==
    IF a = 0 THEN b
    ELSE IF b = 0 THEN a
    ELSE (IF a % 2 = 1 \/ b % 2 = 1 THEN 1 ELSE 0) + 2 * BitOr(a \div 2, b \div 2)

\* a & b on non-negative integers
RECURSIVE BitAnd(_, _)
BitAnd(a, b) ==
    IF a = 0 \/ b = 0 THEN 0
    ELSE (IF a % 2 = 1 /\ b % 2 = 1 THEN 1 ELSE 0) + 2 * BitAnd(a \div 2, b \div 2)

\* x >> n on i32 (arithmetic shift)
Shr(x, n) == x \div Pow2(n)

\* (lo as i32) | ((hi as i32) << 7)
Join14(lo, hi) == BitOr(lo, hi * 128)

\* the high half of a data byte shifted by 8 instead of 7
Join8_Shift8(lo, hi) == BitOr(lo, U8(hi * 256))

\* lo | hi << 7 on u8: the bits shifted past bit 7 are dropped
Join8(lo, hi) == BitOr(lo, U8(hi * 128))

\* 0-based indexing of a Vec
At(s, i) == s[i + 1]

Min(a, b) == IF a < b THEN a ELSE b

\* `pin as usize` indexes the Vec at all: a negative i32 becomes a huge usize
InBounds(s, i) == i >= 0 /\ i < Len(s)

(***************************************************************************)
(* Results of a call.                                                      *)
(***************************************************************************)
NoResult == [kind |-> "None", what |-> "", arg |-> 0, len |-> 0]
Ok(tag) == [kind |-> "Ok", what |-> tag, arg |-> 0, len |-> 0]
Err(what, arg, len) == [kind |-> "Err", what |-> what, arg |-> arg, len |-> len]
Panic(what) == [kind |-> "Panic", what |-> what, arg |-> 0, len |-> 0]

Crashed == result.kind = "Panic"

(***************************************************************************)
(* Pins.                                                                   *)
(***************************************************************************)
Pin(mode, resolution, modes, value) ==
    [mode |-> mode, resolution |-> resolution, modes |-> modes, value |-> value]

PinDefault == Pin(PIN_MODE_ANALOG, DEFAULT_ANALOG_RESOLUTION, <<PIN_MODE_ANALOG>>, 0)

SetValue(ps, i, v) == [ps EXCEPT ![i + 1].value = v]

(***************************************************************************)
(* format!("{:o}.{:o}", major, minor)                                      *)
(***************************************************************************)
Digit(d) ==
    CASE d = 0 -> "0" [] d = 1 -> "1" [] d = 2 -> "2" [] d = 3 -> "3"
      [] d = 4 -> "4" [] d = 5 -> "5" [] d = 6 -> "6" [] d = 7 -> "7"

RECURSIVE Octal(_)
Octal(n) == IF n < 8 THEN Digit(n) ELSE Octal(n \div 8) \o Digit(n % 8)

FormatVersion(major, minor) == Octal(major) \o "." \o Octal(minor)

(***************************************************************************)
(* std::str::from_utf8 succeeds                                            *)
(***************************************************************************)
Cont(b) == b \in 128..191

RECURSIVE IsUtf8(_)
IsUtf8(s) ==
    IF s = <<>> THEN TRUE
    ELSE LET b == s[1]
             n == Len(s)
             two == n >= 2 /\ IsUtf8(SubSeq(s, 3, n))
             three == n >= 3 /\ Cont(s[3]) /\ IsUtf8(SubSeq(s, 4, n))
             four == n >= 4 /\ Cont(s[3]) /\ Cont(s[4]) /\ IsUtf8(SubSeq(s, 5, n))
         IN  IF b < 128 THEN IsUtf8(Tail(s))
             ELSE IF b \in 194..223 THEN n >= 2 /\ Cont(s[2]) /\ two
             ELSE IF b = 224 THEN n >= 2 /\ s[2] \in 160..191 /\ three
             ELSE IF b \in 225..236 \/ b \in 238..239 THEN n >= 2 /\ Cont(s[2]) /\ three
             ELSE IF b = 237 THEN n >= 2 /\ s[2] \in 128..159 /\ three
             ELSE IF b = 240 THEN n >= 2 /\ s[2] \in 144..191 /\ four
             ELSE IF b \in 241..243 THEN n >= 2 /\ Cont(s[2]) /\ four
             ELSE IF b = 244 THEN n >= 2 /\ s[2] \in 128..143 /\ four
             ELSE FALSE

(***************************************************************************)
(* The board as one value, and the decoder as a function of the board and  *)
(* the bytes the transport holds.                                          *)
(***************************************************************************)
Board ==
    [pins |-> pins, i2c_data |-> i2c_data, protocol_version |-> protocol_version,
     firmware_name |-> firmware_name, firmware_version |-> firmware_version]

\* struct I2CReply
I2CReply(address, register, data) ==
    [address |-> address, register |-> register, data |-> data]

\* REPORT_VERSION arm
DecodeVersion(b, buf) ==
    [board |-> [b EXCEPT !.protocol_version = FormatVersion(At(buf, 1), At(buf, 2))],
     res |-> Ok("ProtocolVersion")]

\* the analog arm clamping a pin beyond the list to the last pin instead of
\* skipping it
DecodeAnalog_Clamp(b, buf) ==
    LET pin == BitAnd(At(buf, 0), 15) + 14
        value == Join14(At(buf, 1), At(buf, 2))
    IN  [board |-> IF Len(b.pins) = 0 THEN b
                   ELSE [b EXCEPT !.pins = SetValue(b.pins, Min(pin, Len(b.pins) - 1), value)],
         res |-> Ok("Analog")]

\* ANALOG_MESSAGE..=ANALOG_MESSAGE_BOUND arm
DecodeAnalog(b, buf) ==
    LET pin == BitAnd(At(buf, 0), 15) + 14
        value == Join14(At(buf, 1), At(buf, 2))
    IN  [board |-> IF Len(b.pins) > pin
                   THEN [b EXCEPT !.pins = SetValue(b.pins, pin, value)]
                   ELSE b,
         res |-> Ok("Analog")]

\* the for loop of the DIGITAL_MESSAGE arm: pins[pin].mode is read before the
\* length of the pin list is compared with pin
RECURSIVE DigitalLoop(_, _, _, _)
DigitalLoop(ps, port, value, i) ==
    IF i = 8 THEN [pins |-> ps, ok |-> TRUE]
    ELSE LET pin == 8 * port + i
         IN  IF ~InBounds(ps, pin) THEN [pins |-> ps, ok |-> FALSE]
             ELSE DigitalLoop(
                      IF Len(ps) > pin /\ At(ps, pin).mode = PIN_MODE_INPUT
                      THEN SetValue(ps, pin, BitAnd(Shr(value, BitAnd(i, 7)), 1))
                      ELSE ps,
                      port, value, i + 1)

\* DIGITAL_MESSAGE..=DIGITAL_MESSAGE_BOUND arm
DecodeDigital(b, buf) ==
    LET port == BitAnd(At(buf, 0), 15)
        value == Join14(At(buf, 1), At(buf, 2))
        r == DigitalLoop(b.pins, port, value, 0)
    IN  [board |-> [b EXCEPT !.pins = r.pins],
         res |-> IF r.ok THEN Ok("Digital") ELSE Panic("index out of bounds")]

\* the analog-mapping arm marking a pin whatever its payload byte is
DecodeAnalogMapping_All(b, buf) ==
    LET upper == Min(Len(buf) - 1, Len(b.pins) + 2)
        ps == [k \in 1..Len(b.pins) |->
                  \* k - 1 = i - 2 for the loop index i
                  IF k + 1 < upper
                  THEN [b.pins[k] EXCEPT !.mode = PIN_MODE_ANALOG,
                                         !.modes = <<PIN_MODE_ANALOG>>,
                                         !.resolution = DEFAULT_ANALOG_RESOLUTION]
                  ELSE b.pins[k]]
    IN  [board |-> [b EXCEPT !.pins = ps], res |-> Ok("AnalogMappingResponse")]

\* ANALOG_MAPPING_RESPONSE arm
DecodeAnalogMapping(b, buf) ==
    LET upper == Min(Len(buf) - 1, Len(b.pins) + 2)
        ps == [k \in 1..Len(b.pins) |->
                  \* k - 1 = i - 2 for the loop index i
                  IF k + 1 < upper /\ At(buf, k + 1) # 127
                  THEN [b.pins[k] EXCEPT !.mode = PIN_MODE_ANALOG,
                                         !.modes = <<PIN_MODE_ANALOG>>,
                                         !.resolution = DEFAULT_ANALOG_RESOLUTION]
                  ELSE b.pins[k]]
    IN  [board |-> [b EXCEPT !.pins = ps], res |-> Ok("AnalogMappingResponse")]

\* Option<u8>::None for the resolution of the pin being read
None == -1

\* the while loop of the CAPABILITY_RESPONSE arm
RECURSIVE CapabilityLoop(_, _, _, _, _)
CapabilityLoop(buf, i, ps, modes, resolution) ==
    IF ~(i < Len(buf) - 1) THEN [pins |-> ps, ok |-> TRUE]
    ELSE IF At(buf, i) = 127
         THEN IF modes = <<>> \/ resolution = None
              THEN [pins |-> ps, ok |-> FALSE]     \* expect("pin mode")
              ELSE CapabilityLoop(buf, i + 1,
                                  Append(ps, Pin(modes[1], resolution, modes, 0)),
                                  <<>>, None)
         ELSE CapabilityLoop(buf, i + 2, ps, Append(modes, At(buf, i)),
                             IF resolution = None THEN At(buf, i + 1) ELSE resolution)

\* CAPABILITY_RESPONSE arm
DecodeCapability(b, buf) ==
    LET r == CapabilityLoop(buf, 2, <<PinDefault>>, <<>>, None)
    IN  [board |-> [b EXCEPT !.pins = r.pins],
         res |-> IF r.ok THEN Ok("CapabilityResponse") ELSE Panic("pin mode")]

\* REPORT_FIRMWARE arm
DecodeFirmware(b, buf) ==
    LET len == Len(buf)
        b1 == [b EXCEPT !.firmware_version = FormatVersion(At(buf, 2), At(buf, 3))]
        name == SubSeq(buf, 5, len - 1)
    IN  IF len < 4 THEN [board |-> b, res |-> Err("MessageTooShort", 0, 0)]
        ELSE IF ~(4 < len - 1) THEN [board |-> b1, res |-> Ok("ReportFirmware")]
        ELSE IF ~IsUtf8(name) THEN [board |-> b1, res |-> Err("Utf8Error", 0, 0)]
        ELSE [board |-> [b1 EXCEPT !.firmware_name = name], res |-> Ok("ReportFirmware")]

\* the while loop of the I2C_REPLY arm
RECURSIVE I2CLoop(_, _, _)
I2CLoop(buf, i, data) ==
    IF ~(i < Len(buf) - 1) THEN data
    ELSE IF At(buf, i) = 247 THEN data
    ELSE IF i + 2 > Len(buf) THEN data
    ELSE I2CLoop(buf, i + 2, Append(data, Join8(At(buf, i), At(buf, i + 1))))

\* the I2C_REPLY arm storing the reply in place of the queue
DecodeI2CReply_Overwrite(b, buf) ==
    IF Len(buf) < 8 THEN [board |-> b, res |-> Err("MessageTooShort", 0, 0)]
    ELSE LET reply == I2CReply(Join14(At(buf, 2), At(buf, 3)),
                               Join14(At(buf, 4), At(buf, 5)),
                               I2CLoop(buf, 8, <<Join8(At(buf, 6), At(buf, 7))>>))
         IN  [board |-> [b EXCEPT !.i2c_data = <<reply>>],
              res |-> Ok("I2CReply")]

\* I2C_REPLY arm
DecodeI2CReply(b, buf) ==
    IF Len(buf) < 8 THEN [board |-> b, res |-> Err("MessageTooShort", 0, 0)]
    ELSE LET reply == I2CReply(Join14(At(buf, 2), At(buf, 3)),
                               Join14(At(buf, 4), At(buf, 5)),
                               I2CLoop(buf, 8, <<Join8(At(buf, 6), At(buf, 7))>>))
         IN  [board |-> [b EXCEPT !.i2c_data = Append(b.i2c_data, reply)],
              res |-> Ok("I2CReply")]

\* PIN_STATE_RESPONSE arm
DecodePinState(b, buf) ==
    LET pin == At(buf, 2)
    IN  IF At(buf, 3) = END_SYSEX THEN [board |-> b, res |-> Ok("PinStateResponse")]
        ELSE IF ~InBounds(b.pins, pin)
             THEN [board |-> b, res |-> Panic("index out of bounds")]
             ELSE [board |-> [b EXCEPT !.pins[pin + 1].modes = <<At(buf, 3)>>,
                                       !.pins[pin + 1].value = At(buf, 4)],
                   res |-> Ok("PinStateResponse")]

\* match buf[1] of the START_SYSEX arm
DecodeSysEx(b, buf) ==
    LET code == At(buf, 1)
    IN  IF code = END_SYSEX THEN [board |-> b, res |-> Ok("EmptyResponse")]
        ELSE IF code = ANALOG_MAPPING_RESPONSE THEN DecodeAnalogMapping(b, buf)
        ELSE IF code = CAPABILITY_RESPONSE THEN DecodeCapability(b, buf)
        ELSE IF code = REPORT_FIRMWARE THEN DecodeFirmware(b, buf)
        ELSE IF code = I2C_REPLY THEN DecodeI2CReply(b, buf)
        ELSE IF code = PIN_STATE_RESPONSE THEN DecodePinState(b, buf)
        ELSE [board |-> b, res |-> Err("UnknownSysEx", code, 0)]

\* the fallback arm reporting the second byte of the message
DecodeOther_Second(b, buf) == [board |-> b, res |-> Err("BadByte", At(buf, 1), 0)]

\* the fallback arm: _ => Err(Error::BadByte { byte: buf[0] })
DecodeOther(b, buf) == [board |-> b, res |-> Err("BadByte", At(buf, 0), 0)]

\* the loop reading single bytes until END_SYSEX: the position in s of the
\* first END_SYSEX at or after position k, 0 when there is none
RECURSIVE FirstEnd(_, _)
FirstEnd(s, k) ==
    IF k > Len(s) THEN 0
    ELSE IF s[k] = END_SYSEX THEN k
    ELSE FirstEnd(s, k + 1)

\* Board::read_and_decode on board b with the transport holding `stream`:
\* the board after the call, the bytes left in the transport, the bytes read
\* and the result.  read_exact on a transport that runs dry is an I/O error
\* and leaves nothing to read.
Decode(b, stream) ==
    IF Len(stream) < 3
    THEN [board |-> b, rest |-> <<>>, buf |-> stream, res |-> Err("StdIoError", 0, 0)]
    ELSE LET head == SubSeq(stream, 1, 3)
             tail == SubSeq(stream, 4, Len(stream))
             op == head[1]
             short(d) == [board |-> d.board, rest |-> tail, buf |-> head, res |-> d.res]
         IN  IF op = REPORT_VERSION THEN short(DecodeVersion(b, head))
             ELSE IF op >= ANALOG_MESSAGE /\ op <= ANALOG_MESSAGE_BOUND
                  THEN short(DecodeAnalog(b, head))
             ELSE IF op >= DIGITAL_MESSAGE /\ op <= DIGITAL_MESSAGE_BOUND
                  THEN short(DecodeDigital(b, head))
             ELSE IF op = START_SYSEX
                  THEN LET e == FirstEnd(tail, 1)
                       IN  IF e = 0
                           THEN [board |-> b, rest |-> <<>>, buf |-> stream,
                                 res |-> Err("StdIoError", 0, 0)]
                           ELSE LET buf == head \o SubSeq(tail, 1, e)
                                    d == DecodeSysEx(b, buf)
                                IN  [board |-> d.board,
                                     rest |-> SubSeq(tail, e + 1, Len(tail)),
                                     buf |-> buf, res |-> d.res]
             ELSE short(DecodeOther(b, head))

(***************************************************************************)
(* The operations of the Firmata trait on Board.  Board::write hands the   *)
(* frame to connection.write and maps the count away.                      *)
(***************************************************************************)
Call(op, pin, arg, bytes) == [op |-> op, pin |-> pin, arg |-> arg, bytes |-> bytes]

UnchangedIdentity == UNCHANGED <<protocol_version, firmware_name, firmware_version>>

\* a call that panics before it writes anything
Panics(op, pin, arg, ps) ==
    /\ pins' = ps
    /\ written' = <<>>
    /\ accepted' = <<>>
    /\ result' = Panic("index out of bounds")
    /\ last' = Call(op, pin, arg, <<>>)
    /\ UNCHANGED <<i2c_data, rx, boot, retry, lock>>
    /\ UnchangedIdentity

\* a call that writes `frame` and returns Ok(())
Writes(op, pin, arg, ps, frame) ==
    /\ pins' = ps
    /\ written' = frame
    /\ accepted' = frame
    /\ result' = Ok("Unit")
    /\ last' = Call(op, pin, arg, <<>>)
    /\ UNCHANGED <<i2c_data, rx, boot, retry, lock>>
    /\ UnchangedIdentity

\* the frame analog_write writes
AnalogFrameOut(pin, level) ==
    <<BitOr(ANALOG_MESSAGE, U8(pin)),
      BitAnd(U8(level), SYSEX_REALTIME),
      BitAnd(U8(Shr(level, 7)), SYSEX_REALTIME)>>

analog_write(pin, level) ==
    /\ ~Crashed
    /\ IF ~InBounds(pins, pin)
       THEN Panics("analog_write", pin, level, pins)
       ELSE Writes("analog_write", pin, level, SetValue(pins, pin, level),
                   AnalogFrameOut(pin, level))

\* (pin as f64 / 8f64).floor() as usize: the cast to usize saturates at 0
PortOf(pin) == IF pin < 0 THEN 0 ELSE pin \div 8

\* the while loop of digital_write
RECURSIVE PortLoop(_, _, _, _)
PortLoop(ps, port, i, value) ==
    IF ~(i < 8) THEN [value |-> value, ok |-> TRUE]
    ELSE IF ~InBounds(ps, 8 * port + i) THEN [value |-> value, ok |-> FALSE]
    ELSE PortLoop(ps, port, i + 1,
                  IF At(ps, 8 * port + i).value # 0
                  THEN BitOr(value, Pow2(i))
                  ELSE value)

\* digital_write with the high part of the port value shifted by 8 instead of 7
DigitalFrameOut_Shift8(port, value) ==
    <<BitOr(DIGITAL_MESSAGE, U8(port)),
      BitAnd(U8(value), SYSEX_REALTIME),
      BitAnd(U8(Shr(value, 8)), SYSEX_REALTIME)>>

\* the frame digital_write writes
DigitalFrameOut(port, value) ==
    <<BitOr(DIGITAL_MESSAGE, U8(port)),
      BitAnd(U8(value), SYSEX_REALTIME),
      BitAnd(U8(Shr(value, 7)), SYSEX_REALTIME)>>

digital_write(pin, level) ==
    /\ ~Crashed
    /\ IF ~InBounds(pins, pin)
       THEN Panics("digital_write", pin, level, pins)
       ELSE LET ps == SetValue(pins, pin, level)
                r == PortLoop(ps, PortOf(pin), 0, 0)
            IN  IF ~r.ok
                THEN Panics("digital_write", pin, level, ps)
                ELSE Writes("digital_write", pin, level, ps,
                            DigitalFrameOut(PortOf(pin), r.value))

\* what set_pin_mode records in the pin
SetMode(p, mode) == [p EXCEPT !.modes = <<mode>>]

set_pin_mode(pin, mode) ==
    /\ ~Crashed
    /\ IF ~InBounds(pins, pin)
       THEN Panics("set_pin_mode", pin, mode, pins)
       ELSE Writes("set_pin_mode", pin, mode,
                   [pins EXCEPT ![pin + 1] = SetMode(pins[pin + 1], mode)],
                   <<SET_PIN_MODE, U8(pin), mode>>)

\* the two bytes i2c_write pushes for one data byte
SplitByte(b) == <<BitAnd(b, SYSEX_REALTIME), BitAnd(U8(Shr(b, 7)), SYSEX_REALTIME)>>

RECURSIVE SplitAll(_)
SplitAll(data) == IF data = <<>> THEN <<>> ELSE SplitByte(data[1]) \o SplitAll(Tail(data))

\* the frame i2c_write writes
WriteFrame(address, data) ==
    <<START_SYSEX, I2C_REQUEST, U8(address), I2C_WRITE * 8>>
        \o SplitAll(data) \o <<END_SYSEX>>

i2c_write(address, data) ==
    /\ ~Crashed
    /\ pins' = pins
    /\ written' = WriteFrame(address, data)
    /\ accepted' = written'
    /\ result' = Ok("Unit")
    /\ last' = Call("i2c_write", address, 0, data)
    /\ UNCHANGED <<i2c_data, rx, boot, retry, lock>>
    /\ UnchangedIdentity

\* Board::write: connection.write(buf).map(|_| ()) when the transport takes
\* the first n bytes of the frame, or fails (n = None)
Transmit(op, pin, arg, frame, n) ==
    /\ ~Crashed
    /\ written' = frame
    /\ accepted' = IF n = None THEN <<>> ELSE SubSeq(frame, 1, n)
    /\ result' = IF n = None THEN Err("StdIoError", 0, 0) ELSE Ok("Unit")
    /\ last' = Call(op, pin, arg, <<>>)
    /\ UNCHANGED <<pins, i2c_data, rx>>
    /\ UnchangedIdentity

\* what a call that only writes a frame does when the transport takes all of it
Emit(op, pin, arg, frame) == Transmit(op, pin, arg, frame, Len(frame))

\* such a call made by the client of a board
Sends(op, pin, arg, frame) == Emit(op, pin, arg, frame) /\ UNCHANGED <<boot, retry, lock>>

\* [START_SYSEX, code, END_SYSEX]
QueryFrame(code) == <<START_SYSEX, code, END_SYSEX>>

query_analog_mapping ==
    Sends("query_analog_mapping", 0, 0, QueryFrame(ANALOG_MAPPING_QUERY))

query_capabilities ==
    Sends("query_capabilities", 0, 0, QueryFrame(CAPABILITY_QUERY))

query_firmware ==
    Sends("query_firmware", 0, 0, QueryFrame(REPORT_FIRMWARE))

\* (delay & 0xFF) as u8, (delay >> 8 & 0xFF) as u8
ConfigFrame(delay) ==
    <<START_SYSEX, I2C_CONFIG, delay % 256, Shr(delay, 8) % 256, END_SYSEX>>

i2c_config(delay) == Sends("i2c_config", 0, delay, ConfigFrame(delay))

\* address as u8, I2C_READ << 3, (size as u8) & 0x7F, (size >> 7) as u8 & 0x7F
ReadFrame(address, size) ==
    <<START_SYSEX, I2C_REQUEST, U8(address), I2C_READ * 8,
      BitAnd(U8(size), SYSEX_REALTIME), BitAnd(U8(Shr(size, 7)), SYSEX_REALTIME),
      END_SYSEX>>

i2c_read(address, size) == Sends("i2c_read", address, size, ReadFrame(address, size))

\* [REPORT_DIGITAL | pin as u8, state as u8]
ReportDigitalFrame(pin, state) == <<BitOr(REPORT_DIGITAL, U8(pin)), U8(state)>>

report_digital(pin, state) ==
    Sends("report_digital", pin, state, ReportDigitalFrame(pin, state))

\* [REPORT_ANALOG | pin as u8, state as u8]
ReportAnalogFrame(pin, state) == <<BitOr(REPORT_ANALOG, U8(pin)), U8(state)>>

report_analog(pin, state) ==
    Sends("report_analog", pin, state, ReportAnalogFrame(pin, state))

\* what read_and_decode does to the board and the transport
Decodes ==
    /\ ~Crashed
    /\ rx # <<>> \/ lock.timeout
    /\ LET d == Decode(Board, rx)
       IN  /\ pins' = d.board.pins
           /\ i2c_data' = d.board.i2c_data
           /\ protocol_version' = d.board.protocol_version
           /\ firmware_name' = d.board.firmware_name
           /\ firmware_version' = d.board.firmware_version
           /\ rx' = d.rest
           /\ result' = d.res
           /\ last' = Call("read_and_decode", 0, 0, d.buf)
    /\ written' = <<>>
    /\ accepted' = <<>>

read_and_decode == Decodes /\ UNCHANGED <<boot, retry, lock>>

(***************************************************************************)
(* The device: the frames it sends, as the decoder's arms read them.       *)
(***************************************************************************)
VersionFrame(major, minor) == <<REPORT_VERSION, major, minor>>

\* analog status of pin 14 + offset
AnalogFrame(offset, value) ==
    <<ANALOG_MESSAGE + offset, value % 128, (value \div 128) % 128>>

DigitalFrame(port, value) ==
    <<DIGITAL_MESSAGE + port, value % 128, (value \div 128) % 128>>

SysEx(payload) == <<START_SYSEX>> \o payload \o <<END_SYSEX>>

\* one pin of a capability response: its (mode, resolution) pairs, then 0x7F
RECURSIVE CapPin(_)
CapPin(pairs) ==
    IF pairs = <<>> THEN <<127>> ELSE pairs[1] \o CapPin(Tail(pairs))

RECURSIVE CapPayload(_)
CapPayload(ps) == IF ps = <<>> THEN <<>> ELSE CapPin(ps[1]) \o CapPayload(Tail(ps))

CapabilityFrame(ps) == SysEx(<<CAPABILITY_RESPONSE>> \o CapPayload(ps))

AnalogMappingFrame(channels) == SysEx(<<ANALOG_MAPPING_RESPONSE>> \o channels)

PinStateFrame(pin, mode, value) == SysEx(<<PIN_STATE_RESPONSE, pin, mode, value>>)

FirmwareFrame(major, minor, name) == SysEx(<<REPORT_FIRMWARE, major, minor>> \o name)

I2CReplyFrame(address, register, data) ==
    SysEx(<<I2C_REPLY, address % 128, address \div 128, register % 128, register \div 128>>
          \o SplitAll(data))

\* the pins of the board the device describes: pins 1..13 digital, odd ones
\* listing input first and even ones output first, the others analog
BoardPins == 16

BoardCaps ==
    [k \in 1..BoardPins |->
        IF k >= 14 THEN << <<PIN_MODE_ANALOG, 10>> >>
        ELSE IF k % 2 = 1 THEN << <<PIN_MODE_INPUT, 1>>, <<PIN_MODE_OUTPUT, 1>> >>
        ELSE << <<PIN_MODE_OUTPUT, 1>>, <<PIN_MODE_INPUT, 1>> >>]

\* two pins: {(2,8)} and {(1,1),(0,1)}
SmallCaps == << << <<2, 8>> >>, << <<1, 1>>, <<0, 1>> >> >>

\* a pin that lists no capability
BareCaps == << <<>> >>

\* a pin number beyond every pin list
FarPin == 40

PinMessages ==
    { AnalogFrame(2, 16383), AnalogFrame(15, 1),
      DigitalFrame(0, 138), DigitalFrame(2, 1), DigitalFrame(15, 1),
      CapabilityFrame(BoardCaps), CapabilityFrame(SmallCaps), CapabilityFrame(BareCaps),
      AnalogMappingFrame(<<127, 127, 0, 127>>),
      PinStateFrame(2, PIN_MODE_INPUT, 1), PinStateFrame(FarPin, 1, 1),
      SysEx(<<PIN_STATE_RESPONSE, 2>>) }

\* the device sends one message once the board has read all it sent before
DeviceSend(m) ==
    /\ ~Crashed
    /\ rx = <<>>
    /\ (m[1] = START_SYSEX /\ m[2] = I2C_REPLY) => Len(i2c_data) < MaxReplies
    /\ rx' = m
    /\ UNCHANGED <<pins, i2c_data, protocol_version, firmware_name, firmware_version,
                   written, accepted, result, last, boot, retry, lock>>

\* the device sends a message behind those the board has not read yet
DeviceQueue(m) ==
    /\ ~Crashed
    /\ rx # <<>>
    /\ Len(rx) + Len(m) <= MaxRx
    /\ rx' = rx \o m
    /\ UNCHANGED <<pins, i2c_data, protocol_version, firmware_name, firmware_version,
                   written, accepted, result, last, boot, retry, lock>>

\* the bytes the last call wrote come back as the next bytes to read
Loopback ==
    /\ ~Crashed
    /\ rx = <<>>
    /\ written # <<>>
    /\ rx' = written
    /\ UNCHANGED <<pins, i2c_data, protocol_version, firmware_name, firmware_version,
                   written, accepted, result, last, boot, retry, lock>>

(***************************************************************************)
(* Board::new: the struct literal, then initialize_board step by step.     *)
(***************************************************************************)
NewBoard ==
    /\ pins = <<>>
    /\ i2c_data = <<>>
    /\ protocol_version = ""
    /\ firmware_name = <<>>
    /\ firmware_version = ""
    /\ rx = <<>>
    /\ written = <<>>
    /\ accepted = <<>>
    /\ result = NoResult
    /\ last = Call("new", 0, 0, <<>>)

\* initialize_board at position pc with its three flags false; `decoded` is
\* the set of tags read_and_decode has returned to it and `frames` the frames
\* it has written with Ok returned, in order
Boot(pc) ==
    [pc |-> pc, received_firmware |-> FALSE, received_capabilities |-> FALSE,
     received_analog_mapping |-> FALSE, decoded |-> {}, frames |-> <<>>]

\* a retry_X call at position pc after backoff.reset(): X not yet invoked,
\* nothing slept, nothing returned
Retry(pc) ==
    [pc |-> pc, attempts |-> 0, failures |-> 0, current_interval |-> InitialInterval,
     elapsed |-> 0, slept |-> 0, returned |-> NoResult]

\* no Mutex around the board and no thread started; `timeout` says whether a
\* read of the transport ends when no byte comes (an opened serial port with a
\* timeout, a stream at its end) or waits
Unlocked ==
    [holder |-> "none", reader |-> "off", writer |-> "off", round |-> 0,
     timeout |-> TRUE, poisoned |-> FALSE]

\* Board::new has built the struct and is about to call initialize_board
Init ==
    NewBoard /\ boot = Boot("query_firmware") /\ retry = Retry("idle") /\ lock = Unlocked

\* the loop condition with && in place of ||
KeepWaiting_All(b) ==
    ~b.received_firmware /\ ~b.received_capabilities /\ ~b.received_analog_mapping

\* while !received_firmware || !received_capabilities || !received_analog_mapping
KeepWaiting(b) ==
    ~b.received_firmware \/ ~b.received_capabilities \/ ~b.received_analog_mapping

\* the match on what read_and_decode returned: the three arms that set a flag
Received(b, res) ==
    IF res = Ok("ReportFirmware") THEN [b EXCEPT !.received_firmware = TRUE]
    ELSE IF res = Ok("CapabilityResponse") THEN [b EXCEPT !.received_capabilities = TRUE]
    ELSE IF res = Ok("AnalogMappingResponse")
         THEN [b EXCEPT !.received_analog_mapping = TRUE]
    ELSE b

\* one turn of the loop: Err(e) returns, a panic unwinds, Ok goes round again
AfterRead(b, res) ==
    IF res.kind = "Panic" THEN [b EXCEPT !.pc = "panicked"]
    ELSE IF res.kind = "Err" THEN [b EXCEPT !.pc = "failed"]
    ELSE LET r == [Received(b, res) EXCEPT !.decoded = @ \cup {res.what}]
         IN  [r EXCEPT !.pc = IF KeepWaiting(r) THEN "wait" ELSE "report_digital_0"]

Queries ==
    { <<"query_firmware", REPORT_FIRMWARE, "query_capabilities">>,
      <<"query_capabilities", CAPABILITY_QUERY, "query_analog_mapping">>,
      <<"query_analog_mapping", ANALOG_MAPPING_QUERY, "wait">> }

\* what connection.write may do with a frame: take its first n bytes and
\* return Ok(n), for any n up to its length, or fail
Counts(frame) == (0..Len(frame)) \cup {None}

\* self.X()?: an Err returns from initialize_board, an Ok goes on to `next`
\* with the frame among those written
AfterWrite(b, res, frame, next) ==
    IF res.kind = "Err" THEN [b EXCEPT !.pc = "failed"]
    ELSE [b EXCEPT !.pc = next, !.frames = Append(@, frame)]

initialize_board_query ==
    \E q \in Queries : \E n \in Counts(QueryFrame(q[2])) :
        /\ boot.pc = q[1]
        /\ Transmit(q[1], 0, 0, QueryFrame(q[2]), n)
        /\ boot' = AfterWrite(boot, result', QueryFrame(q[2]), q[3])
        /\ UNCHANGED <<retry, lock>>

initialize_board_wait ==
    /\ boot.pc = "wait"
    /\ Decodes
    /\ boot' = AfterRead(boot, result')
    /\ UNCHANGED <<retry, lock>>

\* the two report_digital calls in the other order
Reports_Swapped ==
    { <<"report_digital_0", 1, "report_digital_1">>, <<"report_digital_1", 0, "done">> }

\* self.report_digital(0, 1)?; self.report_digital(1, 1)?;
Reports ==
    { <<"report_digital_0", 0, "report_digital_1">>, <<"report_digital_1", 1, "done">> }

initialize_board_report ==
    \E r \in Reports : \E n \in Counts(ReportDigitalFrame(r[2], 1)) :
        /\ boot.pc = r[1]
        /\ Transmit("report_digital", r[2], 1, ReportDigitalFrame(r[2], 1), n)
        /\ boot' = AfterWrite(boot, result', ReportDigitalFrame(r[2], 1), r[3])
        /\ UNCHANGED <<retry, lock>>

\* Board::new up to its return: b.initialize_board()?; Ok(b)
new ==
    \/ initialize_board_query
    \/ initialize_board_wait
    \/ initialize_board_report

\* Board::new has returned Ok(b): the client has a board
Built == boot.pc = "done"

\* the board the device describes in answer to the capability query
BootCaps == { SmallCaps }

\* the device answers the three queries of initialize_board in one go
DeviceBoots(caps) ==
    /\ ~Crashed
    /\ boot.pc = "wait" /\ boot.decoded = {}
    /\ rx = <<>>
    /\ rx' = FirmwareFrame(2, 9, <<102>>) \o CapabilityFrame(caps)
                \o AnalogMappingFrame(<<127, 0>>)
    /\ UNCHANGED <<pins, i2c_data, protocol_version, firmware_name, firmware_version,
                   written, accepted, result, last, boot, retry, lock>>

\* Board::new when the device answers its queries
Constructs == new \/ \E caps \in BootCaps : DeviceBoots(caps)

(***************************************************************************)
(* Spec: the pin operations of a client and the pin messages of a device.  *)
(***************************************************************************)
DigitalArgs == { <<-1, 1>>, <<FarPin, 1>>, <<16, 1>>,
                 <<1, 0>>, <<1, 1>>, <<2, 0>>, <<2, 1>> }
AnalogArgs == { <<-1, 300>>, <<FarPin, 300>>, <<2, 300>>, <<16, 300>>, <<16, 16383>> }
ModeArgs == { <<-1, PIN_MODE_INPUT>>, <<FarPin, PIN_MODE_INPUT>>,
              <<2, PIN_MODE_INPUT>>, <<2, PIN_MODE_OUTPUT>> }

ReportArgs == { <<1, 1>>, <<32, 1>> }

Next ==
    \/ Constructs
    \/ Built /\
        \/ \E m \in PinMessages : DeviceSend(m)
        \/ Loopback
        \/ read_and_decode
        \/ \E a \in DigitalArgs : digital_write(a[1], a[2])
        \/ \E a \in AnalogArgs : analog_write(a[1], a[2])
        \/ \E a \in ModeArgs : set_pin_mode(a[1], a[2])
        \/ \E a \in ReportArgs : report_digital(a[1], a[2])
        \/ \E a \in ReportArgs : report_analog(a[1], a[2])

Spec == Init /\ [][Next]_vars

(***************************************************************************)
(* Properties of the pin operations, checked under Spec.                   *)
(***************************************************************************)
PinCalls == {"set_pin_mode", "analog_write", "digital_write"}

\* C2: set_pin_mode, analog_write and digital_write called with a pin that
\* is negative or not below the length of the pin list return the error
\* PinOutOfBounds carrying the pin and the pin count.  (None of the three
\* changes the length of the pin list.)
C2_OutOfBoundsIsAnError ==
    (last.op \in PinCalls /\ ~InBounds(pins, last.pin))
        => result = Err("PinOutOfBounds", last.pin, Len(pins))

IsAnalogMsg(buf) == Len(buf) = 3 /\ buf[1] \in ANALOG_MESSAGE..ANALOG_MESSAGE_BOUND
IsDigitalMsg(buf) == Len(buf) = 3 /\ buf[1] \in DIGITAL_MESSAGE..DIGITAL_MESSAGE_BOUND
IsSysExOf(buf, code) ==
    /\ Len(buf) >= 3
    /\ buf[1] = START_SYSEX
    /\ buf[2] = code
    /\ buf[Len(buf)] = END_SYSEX

\* C3: read_and_decode of an analog, digital-port, analog-mapping or
\* pin-state message returns the tag of the message whatever the length of
\* the pin list; it never fails on a pin that does not exist.
C3_DecodeSkipsMissingPins ==
    last.op = "read_and_decode" =>
        /\ IsAnalogMsg(last.bytes) => result = Ok("Analog")
        /\ IsDigitalMsg(last.bytes) => result = Ok("Digital")
        /\ IsSysExOf(last.bytes, ANALOG_MAPPING_RESPONSE)
               => result = Ok("AnalogMappingResponse")
        /\ IsSysExOf(last.bytes, PIN_STATE_RESPONSE)
               => result = Ok("PinStateResponse")

\* a digital_write of 0 to pin 1 while its siblings 2, 3 and 7 hold non-zero values
C4_Witness ==
    /\ last.op = "digital_write" /\ result.kind = "Ok"
    /\ last.pin = 1 /\ last.arg = 0
    /\ pins[3].value # 0 /\ pins[4].value # 0 /\ pins[8].value # 0
    /\ written = <<DIGITAL_MESSAGE, 12, 1>>

\* C4: a digital_write that succeeds writes [DIGITAL_MESSAGE|port, v & 0x7F,
\* (v >> 7) & 0x7F] where bit i of v is set exactly when pin 8*port+i holds a
\* non-zero value, and it changes no pin but the one written.
C4_PortValueKeepsSiblings ==
    [][(last'.op = "digital_write" /\ result'.kind = "Ok") =>
          LET port == last'.pin \div 8
              v == written'[2] + 128 * written'[3]
          IN  /\ Len(written') = 3
              /\ written'[1] = BitOr(DIGITAL_MESSAGE, port)
              /\ written'[2] <= 127 /\ written'[3] <= 1
              /\ \A i \in 0..7 :
                    ((v \div Pow2(i)) % 2 = 1) <=> (pins'[8 * port + i + 1].value # 0)
              /\ pins'[last'.pin + 1].value = last'.arg
              /\ Len(pins') = Len(pins)
              /\ \A k \in 1..Len(pins) : k # last'.pin + 1 => pins'[k] = pins[k]
      ]_vars

\* C5: after a successful set_pin_mode(pin, mode) the pin's current mode is
\* `mode` and the frame [SET_PIN_MODE, pin, mode] has been written.
C5_ModeIsRecorded ==
    (last.op = "set_pin_mode" /\ result.kind = "Ok") =>
        /\ pins[last.pin + 1].mode = last.arg
        /\ written = <<SET_PIN_MODE, last.pin, last.arg>>

\* C6: decoding a digital-port message for port P with value V returns the
\* tag Digital, sets the value of each existing input pin 8P+i to bit i of V
\* and leaves every other pin, and the rest of every pin, unchanged.
C6_DigitalPortUpdate ==
    [][(read_and_decode /\ Len(rx) >= 3
            /\ rx[1] \in DIGITAL_MESSAGE..DIGITAL_MESSAGE_BOUND) =>
          LET port == rx[1] - DIGITAL_MESSAGE
              v == (rx[2] + 128 * rx[3]) % 256
          IN  /\ result' = Ok("Digital")
              /\ Len(pins') = Len(pins)
              /\ \A k \in 1..Len(pins) :
                    pins'[k] =
                        IF (k - 1) \div 8 = port /\ pins[k].mode = PIN_MODE_INPUT
                        THEN [pins[k] EXCEPT !.value = (v \div Pow2((k - 1) % 8)) % 2]
                        ELSE pins[k]
      ]_vars

\* C7: after analog_write(p, v) on a pin of the pin list, the decoder fed
\* the three bytes analog_write wrote returns the tag Analog and pin p holds v.
C7_AnalogRoundTrip ==
    [][(read_and_decode /\ last.op = "analog_write" /\ result.kind = "Ok"
            /\ rx = written) =>
          /\ result' = Ok("Analog")
          /\ pins'[last.pin + 1].value = last.arg
      ]_vars

\* the (mode, resolution) pairs a capability payload lists, pin by pin
RECURSIVE ListedPins(_, _)
ListedPins(payload, pairs) ==
    IF payload = <<>> THEN <<>>
    ELSE IF payload[1] = 127 THEN <<pairs>> \o ListedPins(Tail(payload), <<>>)
    ELSE IF Len(payload) = 1 THEN <<>>
    ELSE ListedPins(SubSeq(payload, 3, Len(payload)),
                    Append(pairs, <<payload[1], payload[2]>>))

\* C9: decoding a capability response returns the tag CapabilityResponse and
\* replaces the pin list by the placeholder pin followed by one pin per
\* sentinel, each with the modes listed before its sentinel and, when it
\* lists any, the mode and resolution of its first pair.
C9_CapabilityPins ==
    (last.op = "read_and_decode" /\ IsSysExOf(last.bytes, CAPABILITY_RESPONSE)) =>
        LET listed == ListedPins(SubSeq(last.bytes, 3, Len(last.bytes) - 1), <<>>)
        IN  /\ result = Ok("CapabilityResponse")
            /\ Len(pins) = 1 + Len(listed)
            /\ pins[1] = PinDefault
            /\ \A k \in 1..Len(listed) :
                  /\ pins[k + 1].modes = [j \in 1..Len(listed[k]) |-> listed[k][j][1]]
                  /\ pins[k + 1].value = 0
                  /\ listed[k] # <<>> =>
                        /\ pins[k + 1].mode = listed[k][1][1]
                        /\ pins[k + 1].resolution = listed[k][1][2]

(***************************************************************************)
(* SpecWire: the decoder against the stream of a device that also sends    *)
(* messages behind those not read yet.                                     *)
(***************************************************************************)
WireMessages ==
    { VersionFrame(2, 10), AnalogFrame(2, 16383), AnalogFrame(15, 1),
      SysEx(<<>>), AnalogMappingFrame(<<>>), FirmwareFrame(2, 9, <<102>>),
      I2CReplyFrame(5, 10, <<65, 66>>), CapabilityFrame(BoardCaps),
      <<128, 0, 0>>, SysEx(<<1, 0>>) }

ShortMessages == { m \in WireMessages : Len(m) <= 3 }

NextWire ==
    \/ Constructs
    \/ Built /\
        \/ \E m \in WireMessages : DeviceSend(m)
        \/ \E m \in ShortMessages : DeviceQueue(m)
        \/ read_and_decode

SpecWire == Init /\ [][NextWire]_vars

\* the first message of a stream: three bytes, or START_SYSEX up to and
\* including the first END_SYSEX
FirstMessage(s) ==
    IF s = <<>> THEN <<>>
    ELSE IF s[1] = START_SYSEX THEN SubSeq(s, 1, FirstEnd(s, 2))
    ELSE SubSeq(s, 1, Min(3, Len(s)))

\* C1: a read_and_decode that succeeds has read exactly the first message of
\* the stream and left the bytes after it in the transport.
C1_OneMessagePerCall ==
    [][(read_and_decode /\ result'.kind = "Ok") =>
          /\ last'.bytes = FirstMessage(rx)
          /\ rx' = SubSeq(rx, Len(FirstMessage(rx)) + 1, Len(rx))
      ]_vars

\* C8: decoding an analog-status message returns the tag Analog; when its pin
\* (byte0 & 0x0F) + 14 is beyond the pin list the board is unchanged, and
\* otherwise only the value of that pin changes, to byte1 | (byte2 << 7).
C8_AnalogUpdate ==
    [][(read_and_decode /\ Len(rx) >= 3
            /\ rx[1] \in ANALOG_MESSAGE..ANALOG_MESSAGE_BOUND) =>
          LET pin == (rx[1] - ANALOG_MESSAGE) + 14
          IN  /\ result' = Ok("Analog")
              /\ UNCHANGED <<i2c_data, protocol_version, firmware_name, firmware_version>>
              /\ IF pin >= Len(pins)
                 THEN pins' = pins
                 ELSE pins' = [pins EXCEPT ![pin + 1].value = rx[2] + 128 * rx[3]]
      ]_vars

\* an analog message for a pin beyond the list has been decoded on a board
\* with pins, a queued I2C reply and a firmware name, after an analog message
\* for pin 16 was
C8_Witness ==
    /\ last.op = "read_and_decode" /\ last.bytes = AnalogFrame(15, 1)
    /\ result = Ok("Analog")
    /\ Len(pins) = BoardPins + 1
    /\ pins[17].value = 16383
    /\ i2c_data # <<>> /\ firmware_name # <<>> /\ protocol_version # ""

(***************************************************************************)
(* SpecI2C: the I2C requests of a client, and a device that answers a read *)
(* request with the bytes asked for, or sends replies of its own.          *)
(***************************************************************************)
MaxData == 32       \* bytes an I2C device hands over in one reply

\* the bytes an I2C device hands over when asked for n of them
ReplyData(n) == [i \in 1..Min(n, MaxData) |-> (85 * i) % 256]

\* the reply to the read request w: its address, register 0, and as many
\* bytes as it asks for, each split in two like the data of i2c_write
ReplyFrame(w) == I2CReplyFrame(w[3], 0, ReplyData(w[5] + 128 * w[6]))

\* the device answers the read request the client wrote last
DeviceReplies ==
    /\ ~Crashed
    /\ rx = <<>>
    /\ Len(written) = 7 /\ written[2] = I2C_REQUEST /\ written[4] = I2C_READ * 8
    /\ Len(i2c_data) < MaxReplies
    /\ rx' = ReplyFrame(written)
    /\ UNCHANGED <<pins, i2c_data, protocol_version, firmware_name, firmware_version,
                   written, accepted, result, last, boot, retry, lock>>

\* the client takes the newest reply: board.i2c_data().pop()
i2c_data_pop ==
    /\ ~Crashed
    /\ i2c_data # <<>>
    /\ i2c_data' = SubSeq(i2c_data, 1, Len(i2c_data) - 1)
    /\ last' = Call("i2c_data_pop", 0, 0, <<>>)
    /\ UNCHANGED <<pins, protocol_version, firmware_name, firmware_version,
                   rx, written, accepted, result, boot, retry, lock>>

I2CMessages ==
    { I2CReplyFrame(5, 10, <<65, 66>>), I2CReplyFrame(300, 130, <<255, 0, 128>>),
      SysEx(<<I2C_REPLY, 5, 0, 10, 0, 65, 3>>),
      SysEx(<<I2C_REPLY, 5, 0, 10, 0, 65>>), SysEx(<<I2C_REPLY, 5, 0, 10, 0>>),
      VersionFrame(2, 5) }

I2CArgs == { <<5, <<200>>>>, <<5, <<65, 66>>>>, <<200, <<>>>> }

\* delays and (address, size) pairs of the I2C configuration and read requests
DelayArgs == { 0, 100, 200, 300 }
ReadArgs == { <<9, 3>>, <<200, 130>>, <<5, 300>> }

NextI2C ==
    \/ Constructs
    \/ Built /\
        \/ \E a \in I2CArgs : i2c_write(a[1], a[2])
        \/ \E d \in DelayArgs : i2c_config(d)
        \/ \E a \in ReadArgs : i2c_read(a[1], a[2])
        \/ query_firmware
        \/ query_capabilities
        \/ query_analog_mapping
        \/ DeviceReplies
        \/ \E m \in I2CMessages : DeviceSend(m)
        \/ i2c_data_pop
        \/ read_and_decode

SpecI2C == Init /\ [][NextI2C]_vars

\* the payload of an I2C reply frame: the bytes after I2C_REPLY and before END_SYSEX
ReplyPayload(m) == SubSeq(m, 3, Len(m) - 1)

\* address pair, register pair and at least one data pair, every byte 7-bit
IsPairedReply(m) ==
    /\ IsSysExOf(m, I2C_REPLY)
    /\ Len(ReplyPayload(m)) >= 6
    /\ Len(ReplyPayload(m)) % 2 = 0
    /\ \A k \in 1..Len(ReplyPayload(m)) : ReplyPayload(m)[k] <= 127

\* C10: decoding an I2C reply whose payload is an address pair, a register
\* pair and data pairs appends the reply with address = lo | hi<<7, register
\* = lo | hi<<7 and one data byte lo | hi<<7 (a byte: modulo 256) per pair, in
\* order; decoding the pairs i2c_write makes of its data gives that data back.
C10_I2CReplyDecoding ==
    [][(read_and_decode /\ IsPairedReply(FirstMessage(rx))) =>
          LET p == ReplyPayload(FirstMessage(rx))
              reply == I2CReply(p[1] + 128 * p[2], p[3] + 128 * p[4],
                                [k \in 1..((Len(p) - 4) \div 2) |->
                                    (p[3 + 2 * k] + 128 * p[4 + 2 * k]) % 256])
          IN  /\ result' = Ok("I2CReply")
              /\ i2c_data' = Append(i2c_data, reply)
              /\ (last.op = "i2c_read" /\ rx = ReplyFrame(written))
                    => i2c_data'[Len(i2c_data')].data = ReplyData(last.arg)
      ]_vars

\* the reply 5,0,10,0,65,0,66,0 and the answer to i2c_read(5, 300) are queued
C10_Witness ==
    /\ last.op = "read_and_decode" /\ result = Ok("I2CReply")
    /\ Len(i2c_data) = 2
    /\ i2c_data[1] = I2CReply(5, 10, <<65, 66>>)
    /\ i2c_data[2] = I2CReply(5, 0, ReplyData(300))

\* C11: decoding an I2C reply frame with fewer than 8 bytes between the
\* I2C_REPLY code and END_SYSEX fails with MessageTooShort and leaves the
\* reply queue as it was; a frame with 8 or more such bytes is accepted and
\* queued.
C11_ShortReplyRejected ==
    [][(read_and_decode /\ IsSysExOf(FirstMessage(rx), I2C_REPLY)) =>
          IF Len(ReplyPayload(FirstMessage(rx))) < 8
          THEN result' = Err("MessageTooShort", 0, 0) /\ i2c_data' = i2c_data
          ELSE result' = Ok("I2CReply") /\ Len(i2c_data') = Len(i2c_data) + 1
      ]_vars

\* C12: the reply queue changes only by a successful decode of an I2C reply
\* appending one entry behind those queued, or by the client taking entries
\* through i2c_data(); every encode, every decode of another kind and every
\* failed decode leaves it as it was.
C12_QueueAppendOnly ==
    [][~i2c_data_pop =>
          IF read_and_decode /\ result' = Ok("I2CReply")
          THEN /\ Len(i2c_data') = Len(i2c_data) + 1
               /\ SubSeq(i2c_data', 1, Len(i2c_data)) = i2c_data
          ELSE i2c_data' = i2c_data
      ]_vars

\* a too-short reply has been refused while an earlier reply is queued and a
\* protocol version has been decoded
C12_Witness ==
    /\ last.op = "read_and_decode" /\ result = Err("MessageTooShort", 0, 0)
    /\ i2c_data = <<I2CReply(300, 130, <<255, 0, 128>>)>>
    /\ protocol_version # ""

(***************************************************************************)
(* SpecNew: Board::new running initialize_board against a device that      *)
(* sends the three responses and unsolicited messages in any order.  A     *)
(* read that finds the transport empty is the I/O error of the timeout.    *)
(***************************************************************************)
Responses ==
    { FirmwareFrame(2, 9, <<102>>), CapabilityFrame(BoardCaps), CapabilityFrame(SmallCaps),
      AnalogMappingFrame(<<127, 0>>), AnalogMappingFrame(<<127, 127, 0, 127>>) }

Unsolicited == { VersionFrame(2, 5), AnalogFrame(0, 300), DigitalFrame(0, 1) }

\* three bytes that start no message
Malformed == { <<128, 0, 0>> }

NextNew ==
    \/ initialize_board_query
    \/ initialize_board_wait
    \/ initialize_board_report
    \/ \E m \in Responses \cup Unsolicited \cup Malformed : DeviceSend(m)
    \/ \E m \in Unsolicited : DeviceQueue(m)

SpecNew == Init /\ [][NextNew]_vars

ThreeResponses == {"ReportFirmware", "CapabilityResponse", "AnalogMappingResponse"}

\* C13: initialize_board leaves its wait, and Board::new returns the board,
\* only when a firmware, a capability and an analog-mapping response have each
\* been decoded; a read that returns any other tag leaves the wait and its
\* three flags as they were.
C13_WaitsForThreeResponses ==
    [][/\ boot'.pc \in {"report_digital_0", "report_digital_1", "done"}
            => ThreeResponses \subseteq boot'.decoded
       /\ (initialize_board_wait /\ result'.kind = "Ok"
                /\ result'.what \notin ThreeResponses)
            => /\ boot'.pc = "wait"
               /\ boot' = [boot EXCEPT !.decoded = @ \cup {result'.what}]
      ]_vars

\* Board::new has returned after the three responses and a protocol version,
\* an analog message and a digital message between them
C13_Witness ==
    /\ boot.pc = "done"
    /\ result = Ok("Unit") /\ written = ReportDigitalFrame(1, 1)
    /\ boot.decoded = ThreeResponses \cup {"ProtocolVersion", "Analog", "Digital"}

\* C14: while initialize_board waits, a well-formed protocol-version, analog
\* or digital-port message from the device is decoded and the wait goes on:
\* construction neither returns an error nor panics on it.
C14_UnsolicitedTolerated ==
    [][(initialize_board_wait /\ FirstMessage(rx) \in Unsolicited)
          => result'.kind = "Ok" /\ boot'.pc = "wait"
      ]_vars

(***************************************************************************)
(* SpecRetry: retry_read_and_decode against a device that answers late or  *)
(* never.  backoff::retry invokes the operation, returns its Ok, and after *)
(* an error asks the backoff for the next interval and sleeps it; every    *)
(* error is made transient.  Time is in milliseconds: the time slept plus   *)
(* the time each blocking read took, which the transport decides.          *)
(***************************************************************************)
MaxLate == 3        \* the device answers within this many attempts, or never
MaxAttempts == 7    \* attempts of one retry call that are followed

InitRetry ==
    NewBoard /\ boot = Boot("query_firmware") /\ retry = Retry("attempt") /\ lock = Unlocked

\* the random draws of the backoff, as a percentage of the current interval:
\* the ends and the middle of [1 - 0.5, 1 + 0.5]
Draws == {50, 100, 150}

\* current_interval * (1 - 0.5 + draw)
Randomized(current, draw) == (current * draw) \div 100

\* current_interval * 1.5, capped at max_interval
Increment(current) ==
    IF 3 * current >= 2 * MaxInterval THEN MaxInterval ELSE (3 * current) \div 2

\* the time a read blocks: none to speak of, or as long as max_elapsed_time
ReadTimes == {0, MaxElapsedTime}

\* a backoff that hands out no interval
NextBackoff_GiveUp(r, now, draw) == None

\* ExponentialBackoff::next_backoff with the clock at `now` since the reset:
\* None once max_elapsed_time is passed or would be passed by the interval
NextBackoff(r, now, draw) ==
    IF now > MaxElapsedTime THEN None
    ELSE IF now + Randomized(r.current_interval, draw) <= MaxElapsedTime
         THEN Randomized(r.current_interval, draw)
    ELSE None

\* one turn of backoff::retry on what the operation returned, then
\* .map_err(|e| e.into()): Transient { err, .. } => err
AfterAttempt(r, res, took, draw) ==
    LET called == [r EXCEPT !.attempts = @ + 1, !.elapsed = @ + took]
    IN  IF res.kind = "Panic" THEN [called EXCEPT !.pc = "panicked"]
        ELSE IF res.kind = "Ok" THEN [called EXCEPT !.pc = "returned", !.returned = res]
        ELSE LET next == NextBackoff(called, called.elapsed, draw)
             IN  IF next = None
                 THEN [called EXCEPT !.pc = "gave_up", !.failures = @ + 1,
                                     !.returned = res]
                 ELSE [called EXCEPT !.failures = @ + 1,
                                     !.current_interval = Increment(@),
                                     !.elapsed = @ + next,
                                     !.slept = next]

retry_read_and_decode(took, draw) ==
    /\ retry.pc = "attempt"
    /\ retry.attempts < MaxAttempts
    /\ Decodes
    /\ retry' = AfterAttempt(retry, result', took, draw)
    /\ UNCHANGED <<boot, lock>>

RetryMessages == { VersionFrame(2, 5), <<128, 0, 0>> }

DeviceAnswers(m) ==
    /\ retry.pc = "attempt"
    /\ retry.attempts < MaxLate
    /\ DeviceSend(m)

NextRetry ==
    \/ Constructs
    \/ Built /\
        \/ \E took \in ReadTimes, draw \in Draws : retry_read_and_decode(took, draw)
        \/ \E m \in RetryMessages : DeviceAnswers(m)

SpecRetry == InitRetry /\ [][NextRetry]_vars

\* C15: when the operation succeeds on an attempt of a retry call, the call
\* returns that attempt's result, the operation has been invoked once more
\* than it failed, and no error was returned before; an error met while the
\* elapsed-time limit is still far does not end the call.
C15_ReturnsFirstSuccess ==
    [][\A took \in ReadTimes, draw \in Draws : retry_read_and_decode(took, draw) =>
          /\ retry.returned = NoResult
          /\ result'.kind = "Ok" =>
                /\ retry'.pc = "returned"
                /\ retry'.returned = result'
                /\ retry'.attempts = retry.failures + 1
                /\ retry'.failures = retry.failures
          /\ (result'.kind = "Err"
                 /\ retry.elapsed + took + 2 * MaxInterval <= MaxElapsedTime) =>
                /\ retry'.pc = "attempt"
                /\ retry'.returned = NoResult
                /\ retry'.attempts = retry.attempts + 1
                /\ retry'.failures = retry.failures + 1
      ]_vars

\* the third attempt, after an I/O error and a bad byte, has returned the
\* protocol version
C15_Witness ==
    /\ retry.pc = "returned"
    /\ retry.attempts = 3 /\ retry.failures = 2
    /\ retry.returned = Ok("ProtocolVersion") /\ protocol_version # ""
    /\ last.bytes = VersionFrame(2, 5)

\* C16: each interval a retry call sleeps is at least the interval it slept
\* before and at most max_interval.
C16_IntervalsGrowToMax ==
    [][retry'.failures = retry.failures + 1 /\ retry'.pc = "attempt" =>
          /\ retry'.slept >= retry.slept
          /\ retry'.slept <= MaxInterval
      ]_vars

\* C17: a retry call that gives up returns an AttemptsExceeded or
\* TimeoutExceeded error, not the error of the last attempt itself.
C17_ExhaustionIsWrapped ==
    retry.pc = "gave_up" =>
        /\ retry.returned.kind = "Err"
        /\ retry.returned.what \in {"AttemptsExceeded", "TimeoutExceeded"}

\* C18: once a capability response has built the pin list, the mode of every
\* pin is one of the modes the pin lists as supported.
C18_ModeIsSupported ==
    \A k \in 1..Len(pins) :
        \E j \in 1..Len(pins[k].modes) : pins[k].modes[j] = pins[k].mode

ExtendedCalls ==
    {"query_firmware", "query_capabilities", "query_analog_mapping",
     "i2c_config", "i2c_read", "i2c_write"}

\* x as the pair (x & 0x7F, (x >> 7) & 0x7F)
Pair7(x) == <<x % 128, (x \div 128) % 128>>

RECURSIVE Pairs7(_)
Pairs7(data) == IF data = <<>> THEN <<>> ELSE Pair7(data[1]) \o Pairs7(Tail(data))

\* C19: the frame an extended operation writes starts with START_SYSEX, ends
\* with END_SYSEX and has no byte above 0x7F in between; the delay of
\* i2c_config, the size of i2c_read and each data byte of i2c_write are in it
\* as the pair (x & 0x7F, (x >> 7) & 0x7F), low half first.
C19_ExtendedFramesAre7Bit ==
    last.op \in ExtendedCalls =>
        /\ Len(written) >= 3
        /\ written[1] = START_SYSEX
        /\ written[Len(written)] = END_SYSEX
        /\ \A k \in 2..(Len(written) - 1) : written[k] <= 127
        /\ last.op = "i2c_config" => SubSeq(written, 3, 4) = Pair7(last.arg)
        /\ last.op = "i2c_read" => SubSeq(written, 5, 6) = Pair7(last.arg)
        /\ last.op = "i2c_write"
              => SubSeq(written, 5, Len(written) - 1) = Pairs7(last.bytes)

DecimalDigit(d) ==
    CASE d = 0 -> "0" [] d = 1 -> "1" [] d = 2 -> "2" [] d = 3 -> "3" [] d = 4 -> "4"
      [] d = 5 -> "5" [] d = 6 -> "6" [] d = 7 -> "7" [] d = 8 -> "8" [] d = 9 -> "9"

RECURSIVE Decimal(_)
Decimal(n) == IF n < 10 THEN DecimalDigit(n) ELSE Decimal(n \div 10) \o DecimalDigit(n % 10)

\* "major.minor" in decimal
DecimalVersion(major, minor) == Decimal(major) \o "." \o Decimal(minor)

\* C20: after a protocol-version message [0xF9, major, minor] is decoded,
\* protocol_version is "major.minor" in decimal; after a firmware report is
\* decoded, firmware_version is the decimal "major.minor" of its two version
\* bytes, whatever string was stored before.
C20_VersionsAreDecimal ==
    last.op = "read_and_decode" =>
        /\ result = Ok("ProtocolVersion")
              => protocol_version = DecimalVersion(last.bytes[2], last.bytes[3])
        /\ (result = Ok("ReportFirmware") /\ Len(last.bytes) >= 5)
              => firmware_version = DecimalVersion(last.bytes[3], last.bytes[4])

\* the first bytes read_and_decode has an arm for
Recognised ==
    {REPORT_VERSION, START_SYSEX} \cup (ANALOG_MESSAGE..ANALOG_MESSAGE_BOUND)
        \cup (DIGITAL_MESSAGE..DIGITAL_MESSAGE_BOUND)

\* C21: read_and_decode of a message whose first byte is not REPORT_VERSION,
\* START_SYSEX, 0xE0..0xEF or 0x90..0x9F fails with BadByte carrying that
\* byte and leaves the pins, the I2C queue and the identity strings as they
\* were.
C21_BadByteIsReported ==
    [][(read_and_decode /\ Len(rx) >= 3 /\ rx[1] \notin Recognised) =>
          /\ result' = Err("BadByte", rx[1], 0)
          /\ UNCHANGED <<pins, i2c_data, protocol_version, firmware_name,
                         firmware_version>>
      ]_vars

\* the message 80 00 00 has been refused on a board that has pins, a queued
\* reply and its identity strings
C21_Witness ==
    /\ last.op = "read_and_decode" /\ last.bytes = <<128, 0, 0>>
    /\ result = Err("BadByte", 128, 0)
    /\ pins # <<>> /\ i2c_data # <<>>
    /\ protocol_version # "" /\ firmware_version # ""

\* the frames of a sequence whose first byte is a report-digital command
IsReportDigital(f) == f[1] \in REPORT_DIGITAL..(REPORT_DIGITAL + 15)

ReportFrames(frames) == SelectSeq(frames, IsReportDigital)

BothReports == << <<REPORT_DIGITAL, 1>>, <<REPORT_DIGITAL + 1, 1>> >>

\* C22: the frames construction writes are the three queries and then, once
\* the firmware, capability and analog-mapping responses have all been
\* decoded, report-digital for port 0 and for port 1 with state 1, in that
\* order and as its last frames; a construction that has failed returns the
\* error of the write or the read that failed, and has written no
\* report-digital frame unless it is the write of the second that failed.
C22_ReportsComeLast ==
    LET reports == ReportFrames(boot.frames)
    IN  /\ reports # <<>> =>
              /\ ThreeResponses \subseteq boot.decoded
              /\ reports = SubSeq(BothReports, 1, Len(reports))
              /\ boot.frames = SubSeq(boot.frames, 1, 3) \o reports
        /\ boot.pc = "done" => reports = BothReports
        /\ boot.pc = "failed" =>
              /\ result.kind = "Err"
              /\ IF last = Call("report_digital", 1, 1, <<>>)
                 THEN result = Err("StdIoError", 0, 0) /\ reports = <<BothReports[1]>>
                 ELSE reports = <<>>
              /\ last.op = "read_and_decode" =>
                    result \in { Err("StdIoError", 0, 0), Err("BadByte", 128, 0) }
              /\ last.op # "read_and_decode" => result = Err("StdIoError", 0, 0)

\* construction has returned after its five frames, with an unsolicited
\* protocol version decoded on the way
C22_Witness ==
    /\ boot.pc = "done"
    /\ Len(boot.frames) = 5
    /\ written = <<REPORT_DIGITAL + 1, 1>>
    /\ "ProtocolVersion" \in boot.decoded

\* the bytes of a SysEx frame after its code and before END_SYSEX
FramePayload(m) == SubSeq(m, 3, Len(m) - 1)

\* C23: decoding an analog-mapping response returns its tag for every pin
\* list, the empty one included, and keeps the length of the list; of the
\* first min(payload length, pin count) pins, one whose payload byte is 0x7F
\* is unchanged and any other gets mode analog and the default resolution,
\* its value kept; the pins beyond the payload are unchanged.
C23_AnalogMappingInBounds ==
    [][((read_and_decode \/ initialize_board_wait)
            /\ IsSysExOf(FirstMessage(rx), ANALOG_MAPPING_RESPONSE)) =>
          LET p == FramePayload(FirstMessage(rx))
              n == Min(Len(p), Len(pins))
          IN  /\ result' = Ok("AnalogMappingResponse")
              /\ Len(pins') = Len(pins)
              /\ \A k \in 1..Len(pins) :
                    IF k <= n /\ p[k] # 127
                    THEN /\ pins'[k].mode = PIN_MODE_ANALOG
                         /\ pins'[k].resolution = DEFAULT_ANALOG_RESOLUTION
                         /\ pins'[k].value = pins[k].value
                    ELSE pins'[k] = pins[k]
      ]_vars

\* the mapping 7F 7F 00 7F has been decoded by initialize_board before any
\* capability response: the pin list is still empty
C23_Witness ==
    /\ boot.pc = "wait"
    /\ last.op = "read_and_decode"
    /\ last.bytes = AnalogMappingFrame(<<127, 127, 0, 127>>)
    /\ result = Ok("AnalogMappingResponse")
    /\ pins = <<>>
    /\ boot.received_analog_mapping /\ ~boot.received_capabilities

(***************************************************************************)
(* SpecLink: the frame-only operations on a transport whose write takes a  *)
(* prefix of the buffer and returns its length, or fails, and which hands  *)
(* the bytes it took back to the reader.                                   *)
(***************************************************************************)
LinkCalls ==
    { <<"query_firmware", 0, 0, QueryFrame(REPORT_FIRMWARE)>>,
      <<"query_capabilities", 0, 0, QueryFrame(CAPABILITY_QUERY)>>,
      <<"query_analog_mapping", 0, 0, QueryFrame(ANALOG_MAPPING_QUERY)>>,
      <<"report_digital", 0, 1, ReportDigitalFrame(0, 1)>>,
      <<"report_digital", 1, 1, ReportDigitalFrame(1, 1)>> }
    \cup { <<"i2c_config", 0, d, ConfigFrame(d)>> : d \in DelayArgs }
    \cup { <<"i2c_read", a[1], a[2], ReadFrame(a[1], a[2])>> : a \in ReadArgs }

write(call, n) ==
    /\ Transmit(call[1], call[2], call[3], call[4], n)
    /\ UNCHANGED <<boot, retry, lock>>

\* the bytes the transport took come back as the next bytes to read
LinkLoopback ==
    /\ ~Crashed
    /\ rx = <<>>
    /\ accepted # <<>>
    /\ rx' = accepted
    /\ UNCHANGED <<pins, i2c_data, protocol_version, firmware_name, firmware_version,
                   written, accepted, result, last, boot, retry, lock>>

NextLink ==
    \/ Constructs
    \/ Built /\
        \/ \E call \in LinkCalls : \E n \in Counts(call[4]) : write(call, n)
        \/ LinkLoopback
        \/ read_and_decode

SpecLink == Init /\ [][NextLink]_vars

\* C24: when an operation that writes a frame has returned Ok, the transport
\* has taken the whole frame.
C24_SuccessMeansWholeFrame ==
    (last.op \in {c[1] : c \in LinkCalls} /\ result = Ok("Unit")) => accepted = written

\* the bytes an operation's command byte may be: its opcode with a 4-bit
\* pin or port
OpcodeRange(op) ==
    CASE op = "analog_write" -> ANALOG_MESSAGE..ANALOG_MESSAGE_BOUND
      [] op = "digital_write" -> DIGITAL_MESSAGE..DIGITAL_MESSAGE_BOUND
      [] op = "report_analog" -> REPORT_ANALOG..(REPORT_ANALOG + 15)
      [] op = "report_digital" -> REPORT_DIGITAL..(REPORT_DIGITAL + 15)

\* C25: the frame analog_write, digital_write, report_analog or
\* report_digital has written on success starts with a byte inside the
\* operation's own opcode range, and its bytes after the first are <= 0x7F.
C25_CommandByteInRange ==
    (last.op \in {"analog_write", "digital_write", "report_analog", "report_digital"}
        /\ result = Ok("Unit")) =>
        /\ written[1] \in OpcodeRange(last.op)
        /\ \A k \in 2..Len(written) : written[k] <= 127

\* C26: digital_write(pin, level) on a pin that exists returns Ok for every
\* length of the pin list, and the port value it writes has bit i set exactly
\* when pin 8 * port + i exists and has a non-zero value.
C26_PartialPortIsWritten ==
    (last.op = "digital_write" /\ InBounds(pins, last.pin)) =>
        /\ result = Ok("Unit")
        /\ LET port == last.pin \div 8
               value == written[2] + 128 * written[3]
           IN  \A i \in 0..7 :
                   (value \div Pow2(i)) % 2 = 1
                       <=> (InBounds(pins, 8 * port + i) /\ At(pins, 8 * port + i).value # 0)

(***************************************************************************)
(* SpecLock: main of examples/blinkm_i2c.rs.  It builds the board, puts it *)
(* behind a Mutex and spawns the decoding thread: lock, read_and_decode,   *)
(* unlock, lock, query_firmware, unlock, sleep.  The main thread then runs *)
(* init, and set_rgb and read_rgb in rounds, each taking the lock for its  *)
(* calls.  read_exact waits inside the lock until the transport has bytes  *)
(* or its timeout ends the read; an expect() that fails while the guard is *)
(* alive poisons the Mutex.  The device speaks only when it is asked.      *)
(***************************************************************************)
Rounds == 3     \* the rounds of set_rgb and read_rgb main runs

\* the serial port is opened with a timeout, or a transport without one is used
InitLock ==
    /\ NewBoard /\ boot = Boot("query_firmware") /\ retry = Retry("idle")
    /\ \E t \in BOOLEAN : lock = [Unlocked EXCEPT !.timeout = t]

\* Arc::new(Mutex::new(board)), thread::spawn, and main goes on to init
spawn ==
    /\ Built /\ lock.reader = "off"
    /\ lock' = [lock EXCEPT !.reader = "idle", !.writer = "init", !.round = 1]
    /\ UNCHANGED <<pins, i2c_data, protocol_version, firmware_name, firmware_version,
                   rx, written, accepted, result, last, boot, retry>>

\* the process runs until main returns or panics
Running == lock.writer \notin {"off", "exit", "dead"}

\* b.lock().expect("lock") of the decoding thread, up to the read
reader_lock ==
    /\ Running
    /\ lock.reader = "idle" /\ lock.holder = "none" /\ ~lock.poisoned
    /\ lock' = [lock EXCEPT !.holder = "reader", !.reader = "reading"]
    /\ UNCHANGED <<pins, i2c_data, protocol_version, firmware_name, firmware_version,
                   rx, written, accepted, result, last, boot, retry>>

\* the end of the statement: expect("a message") on the result, guard dropped
AfterDecode(l, res) ==
    IF res.kind = "Ok"
    THEN [l EXCEPT !.holder = "none", !.reader = "query"]
    ELSE [l EXCEPT !.holder = "none", !.reader = "dead", !.poisoned = TRUE]

\* read_and_decode returns to the decoding thread
reader_read ==
    /\ Running
    /\ lock.reader = "reading"
    /\ Decodes
    /\ lock' = AfterDecode(lock, result')
    /\ UNCHANGED <<boot, retry>>

\* b.lock().expect("lock").query_firmware().expect(..), then the sleep
reader_query ==
    /\ Running
    /\ lock.reader = "query" /\ lock.holder = "none"
    /\ Emit("query_firmware", 0, 0, QueryFrame(REPORT_FIRMWARE))
    /\ lock' = [lock EXCEPT !.reader = "idle"]
    /\ UNCHANGED <<boot, retry>>

\* the positions at which the main thread takes the lock, and where it is then
LockPoints ==
    { <<"init", "init_config">>, <<"set_rgb", "set_rgb_n">>,
      <<"read_rgb", "read_rgb_g">>, <<"poll", "poll_test">> }

\* board.lock().expect("lock") of the main thread: on a poisoned Mutex the
\* expect panics and the process ends
main_lock ==
    \E p \in LockPoints :
        /\ lock.writer = p[1] /\ lock.holder = "none"
        /\ lock' = IF lock.poisoned THEN [lock EXCEPT !.writer = "dead"]
                   ELSE [lock EXCEPT !.holder = "writer", !.writer = p[2]]
        /\ UNCHANGED <<pins, i2c_data, protocol_version, firmware_name,
                       firmware_version, rx, written, accepted, result, last,
                       boot, retry>>

\* the colours main sets, by round
Colour(round) ==
    IF round % 3 = 1 THEN <<255, 0, 0>> ELSE IF round % 3 = 2 THEN <<0, 255, 0>>
    ELSE <<0, 0, 255>>

\* the retry_ calls of init, set_rgb and read_rgb under the guard: position,
\* operation, address, argument, frame, next position, guard dropped after it
MainCalls(round) ==
    { <<"init_config", "i2c_config", 0, 0, ConfigFrame(0), "init_write", FALSE>>,
      <<"init_write", "i2c_write", 9, 0, WriteFrame(9, <<111>>), "init_sleep", FALSE>>,
      <<"set_rgb_n", "i2c_write", 9, 0, WriteFrame(9, <<110>>), "set_rgb_rgb", FALSE>>,
      <<"set_rgb_rgb", "i2c_write", 9, 0, WriteFrame(9, Colour(round)), "read_rgb", TRUE>>,
      <<"read_rgb_g", "i2c_write", 9, 0, WriteFrame(9, <<103>>), "read_rgb_read", FALSE>>,
      <<"read_rgb_read", "i2c_read", 9, 3, ReadFrame(9, 3), "poll", TRUE>> }

\* one retry_ call of the main thread: backoff::retry runs the call on a
\* fresh backoff and returns its Ok
main_call ==
    \E c \in MainCalls(lock.round) :
        /\ lock.writer = c[1] /\ lock.holder = "writer"
        /\ Emit(c[2], c[3], c[4], c[5])
        /\ \E draw \in Draws : retry' = AfterAttempt(Retry("attempt"), result', 0, draw)
        /\ lock' = [lock EXCEPT !.writer = c[6],
                                !.holder = IF c[7] THEN "none" ELSE @]
        /\ UNCHANGED boot

\* init sleeps 10 ms with the guard alive, then returns
init_sleep ==
    /\ lock.writer = "init_sleep" /\ lock.holder = "writer"
    /\ lock' = [lock EXCEPT !.writer = "set_rgb", !.holder = "none"]
    /\ UNCHANGED <<pins, i2c_data, protocol_version, firmware_name, firmware_version,
                   rx, written, accepted, result, last, boot, retry>>

\* one turn of read_rgb's loop under the guard: with a reply queued it pops
\* the newest and returns to main, which goes to sleep; with none it drops
\* the guard, sleeps and tries again
read_rgb_poll ==
    /\ lock.writer = "poll_test" /\ lock.holder = "writer"
    /\ IF i2c_data # <<>>
       THEN /\ i2c_data' = SubSeq(i2c_data, 1, Len(i2c_data) - 1)
            /\ last' = Call("i2c_data_pop", 0, 0, i2c_data[Len(i2c_data)].data)
            /\ lock' = [lock EXCEPT !.holder = "none", !.writer = "sleep"]
       ELSE /\ UNCHANGED <<i2c_data, last>>
            /\ lock' = [lock EXCEPT !.holder = "none", !.writer = "poll"]
    /\ UNCHANGED <<pins, protocol_version, firmware_name, firmware_version,
                   rx, written, accepted, result, boot, retry>>

\* the end of main's sleep of a second after a round: the next round, or
\* main returns after the last and the process ends
main_sleep ==
    /\ lock.writer = "sleep"
    /\ lock' = IF lock.round < Rounds
               THEN [lock EXCEPT !.writer = "set_rgb", !.round = @ + 1]
               ELSE [lock EXCEPT !.writer = "exit"]
    /\ UNCHANGED <<pins, i2c_data, protocol_version, firmware_name, firmware_version,
                   rx, written, accepted, result, last, boot, retry>>

\* the device answers the firmware query
DeviceReports ==
    /\ ~Crashed
    /\ rx = <<>>
    /\ written = QueryFrame(REPORT_FIRMWARE)
    /\ rx' = FirmwareFrame(2, 9, <<102>>)
    /\ UNCHANGED <<pins, i2c_data, protocol_version, firmware_name, firmware_version,
                   written, accepted, result, last, boot, retry, lock>>

NextLock ==
    \/ Constructs
    \/ spawn
    \/ reader_lock
    \/ reader_read
    \/ reader_query
    \/ main_lock
    \/ main_call
    \/ init_sleep
    \/ read_rgb_poll
    \/ main_sleep
    \/ Running /\ DeviceReplies
    \/ Running /\ DeviceReports

SpecLock == InitLock /\ [][NextLock]_vars

\* the decoding thread holds the lock inside a read that nothing will end:
\* the transport is empty and has no timeout, the device has nothing to answer
Blocked ==
    /\ lock.holder = "reader" /\ lock.reader = "reading"
    /\ rx = <<>> /\ ~lock.timeout
    /\ ~ENABLED DeviceReplies /\ ~ENABLED DeviceReports

\* the main thread is about to take the lock for commands it has to issue
WaitingToSend == lock.writer \in {"init", "set_rgb", "read_rgb"}

\* C27: while the main thread waits to issue commands, the decoding thread is
\* never blocked in a read, holding the lock, that only those commands could
\* end; and the main thread is never lost with commands unsent.
C27_CommandsGetThrough ==
    /\ WaitingToSend => ~Blocked
    /\ lock.writer # "dead"

====
